---- MODULE Spec2Model ----
(***************************************************************************)
(* AutoTrainProject (src/src/autotrain/project.py): a dataset descriptor   *)
(* and a table of job rows are turned, row by row, into task-specific      *)
(* parameter dicts, each handed to a remote SpaceRunner.                   *)
(*                                                                         *)
(* Encoding of Python values:                                              *)
(*   str            a TLA+ string                                          *)
(*   bool           TRUE / FALSE                                           *)
(*   None           the reserved string PyNone                             *)
(*   dict           a function whose DOMAIN is the set of keys             *)
(*   list           a sequence                                             *)
(*   str-or-list    [isstr |-> BOOLEAN, str |-> the str, list |-> the list]*)
(*   object         a function from attribute name to value; an attribute  *)
(*                  never assigned is not in the DOMAIN (AttributeError)   *)
(*   DataFrame      [columns, nrows, data], data[c][i] the cell of column  *)
(*                  c at index label i (RangeIndex 0..nrows-1)             *)
(***************************************************************************)
EXTENDS Integers, Sequences, FiniteSets, TLC

VARIABLES
    self,             \* the AutoTrainProject instance (its attributes)
    init_job_params,  \* the job_params table as it was when __post_init__ ran
    pc,               \* where the caller / the running method is
    err,              \* the exception that reached the caller ("" if none)
    entry,            \* the public method the caller invoked
    job_idx,          \* loop variable of create_spaces
    created_spaces,   \* local _created_spaces of create_spaces
    result,           \* what the invoked method returned
    runner_log,       \* the remote runner's side: one entry per SpaceRunner.prepare()
    compiled          \* last dict returned by a direct munge call, per index

vars == <<self, init_job_params, pc, err, entry, job_idx, created_spaces,
          result, runner_log, compiled>>

----------------------------------------------------------------------------
\* Bounds of the explored inputs

MaxJobs == 2        \* most rows in a job_params table
MaxLabelCols == 2   \* most columns in a list-valued col_mapping["label"]
MaxNameLen == 2     \* longest bare-string col_mapping["label"], in characters

----------------------------------------------------------------------------
\* Python values and helpers

PyNone == "<None>"
NaN == "<NaN>"
JsonNull == "<null>"

Ok(v) == [ok |-> TRUE, val |-> v, err |-> ""]
Fail(e) == [ok |-> FALSE, val |-> <<>>, err |-> e]

Has(d, k) == k \in DOMAIN d
Put(d, k, v) == [x \in (DOMAIN d) \cup {k} |-> IF x = k THEN v ELSE d[x]]
Pop(d, k) == [x \in (DOMAIN d) \ {k} |-> d[x]]

PyStr(s) == [isstr |-> TRUE, str |-> s, list |-> <<>>]
PyList(l) == [isstr |-> FALSE, str |-> "", list |-> l]

\* len(x) of a str (its characters) or of a list (its elements)
PyLen(x) == IF x.isstr THEN Len(x.str) ELSE Len(x.list)

\* str.lower() and str.strip() on the strings that occur in the explored rows
Lower(s) ==
    CASE s = "SFT" -> "sft"
      [] s = "None" -> "none"
      [] s = "NONE" -> "none"
      [] OTHER -> s

Strip(s) ==
    CASE s = " " -> ""
      [] s = " none " -> "none"
      [] OTHER -> s

\* range(n) as a list: <<0, 1, ..., n-1>>
Range(n) == [i \in 1..n |-> i - 1]

----------------------------------------------------------------------------
\* autotrain.tasks.TASKS: task name -> task id

TASKS ==
    [t \in {"text_binary_classification", "text_multi_class_classification",
            "lm_training", "tabular_binary_classification",
            "tabular_multi_class_classification",
            "tabular_multi_label_classification",
            "tabular_single_column_regression",
            "tabular_multi_column_regression",
            "image_binary_classification", "dreambooth"} |->
        CASE t = "text_binary_classification" -> 1
          [] t = "text_multi_class_classification" -> 2
          [] t = "lm_training" -> 9
          [] t = "tabular_binary_classification" -> 13
          [] t = "tabular_multi_class_classification" -> 14
          [] t = "tabular_multi_label_classification" -> 15
          [] t = "tabular_single_column_regression" -> 16
          [] t = "tabular_multi_column_regression" -> 26
          [] t = "image_binary_classification" -> 17
          [] t = "dreambooth" -> 25]

\* dict.get with no default: None is encoded as the non-id -1
NoTaskId == 0 - 1
TasksGet(task) == IF task \in DOMAIN TASKS THEN TASKS[task] ELSE NoTaskId

\* task.startswith("tabular_")
StartsWithTabular(task) ==
    task \in {"tabular_binary_classification", "tabular_multi_class_classification",
              "tabular_multi_label_classification", "tabular_single_column_regression",
              "tabular_multi_column_regression", "tabular_custom"}

----------------------------------------------------------------------------
\* pandas: the job_params DataFrame

BoolColumns == {"use_fp16", "use_int4", "use_int8"}

\* DataFrame built from a list of row dicts that share their keys
FrameOf(cols, n, rows) ==
    [columns |-> cols, nrows |-> n,
     data |-> [c \in cols |-> [i \in 0..(n - 1) |-> rows[i][c]]]]

\* a plausible slip: a missing column reads as None (as dict.get would)
Loc0_lenient(df, col) ==
    IF col \in df.columns /\ df.nrows > 0 THEN Ok(df.data[col][0]) ELSE Ok(PyNone)

\* df.loc[0, col]
Loc0(df, col) ==
    IF col \in df.columns /\ df.nrows > 0 THEN Ok(df.data[col][0]) ELSE Fail("KeyError")

\* one cell as JSON text: NaN of an object column is written as null
ToJsonCell(c, v) ==
    IF c \in BoolColumns THEN v ELSE IF v = NaN THEN JsonNull ELSE v

\* df.to_json(orient="records"): the column-wise table as a list of row records
ToJson(df) ==
    [i \in 1..df.nrows |-> [c \in df.columns |-> ToJsonCell(c, df.data[c][i - 1])]]

FromJsonCell(c, v) ==
    IF c \in BoolColumns THEN v ELSE IF v = JsonNull THEN PyNone ELSE v

\* json.loads of that text: a fresh list of fresh dicts
JsonLoads(js) ==
    [i \in 1..Len(js) |-> [c \in DOMAIN js[i] |-> FromJsonCell(c, js[i][c])]]

----------------------------------------------------------------------------
\* AutoTrainProject.__post_init__

\* the table assigned to self.spaces_backends
SpacesBackends ==
    [b \in {"A10G Large", "A10G Small", "A100 Large", "T4 Medium", "T4 Small",
            "CPU Upgrade", "CPU (Free)"} |->
        CASE b = "A10G Large" -> "spaces-a10gl"
          [] b = "A10G Small" -> "spaces-a10gs"
          [] b = "A100 Large" -> "spaces-a100"
          [] b = "T4 Medium" -> "spaces-t4m"
          [] b = "T4 Small" -> "spaces-t4s"
          [] b = "CPU Upgrade" -> "spaces-cpu"
          [] b = "CPU (Free)" -> "spaces-cpuf"]

\* [f"autotrain_label_{i}" for i in range(n)]
GeneratedLabels(n) == [i \in 1..n |-> "autotrain_label_" \o ToString(Range(n)[i])]

\* _tabular_target_cols, from col_mapping["label"] (a str or a list of str)
TabularTargetCols(label) ==
    IF label.isstr \/ PyLen(label) > 1
        THEN GeneratedLabels(PyLen(label))
        ELSE <<"autotrain_label">>

\* the attributes copied from the dataset, and data_path
PostInitShared(obj) ==
    LET ds == obj["dataset"]
        o1 == Put(Put(Put(Put(obj, "token", ds["token"]),
                          "project_name", ds["project_name"]),
                      "username", ds["username"]),
                  "task", ds["task"])
        o2 == IF ds["kind"] = "AutoTrainDataset"
                  THEN Put(o1, "col_mapping", ds["column_mapping"])
                  ELSE o1
    IN  Put(o2, "data_path", ds["username"] \o "/autotrain-data-" \o ds["project_name"])

\* backend, model_choice, param_choice: read from row 0 of job_params
PostInitRow0(obj) ==
    LET jp == obj["job_params"]
        b == Loc0(jp, "backend")
    IN  IF ~b.ok THEN Fail(b.err)
        ELSE LET o1 == Put(obj, "backend", b.val)
                 o2 == IF "model_choice" \in jp.columns
                           THEN Put(o1, "model_choice", Loc0(jp, "model_choice").val)
                           ELSE o1
                 o3 == IF "param_choice" \in jp.columns
                           THEN Put(o2, "param_choice", Loc0(jp, "param_choice").val)
                           ELSE o2
             IN  Ok(o3)

\* the col_map_* attributes, chosen by the task name
PostInitColMaps(obj) ==
    LET task == obj["task"]
        o1 == IF task \in {"text_multi_class_classification", "text_binary_classification"}
                  THEN Put(Put(obj, "col_map_text", "autotrain_text"),
                           "col_map_target", PyStr("autotrain_label"))
                  ELSE obj
        o2 == IF task = "lm_training" THEN Put(o1, "col_map_text", "autotrain_text") ELSE o1
    IN  IF ~StartsWithTabular(task) THEN Ok(o2)
        ELSE IF ~Has(o2, "col_mapping") THEN Fail("AttributeError")
        ELSE IF ~Has(o2["col_mapping"], "label") THEN Fail("KeyError")
        ELSE Ok(Put(Put(o2, "col_map_id", "autotrain_id"),
                    "col_map_target",
                    PyList(TabularTargetCols(o2["col_mapping"]["label"]))))

\* the whole of __post_init__ on an object holding dataset and job_params
PostInit(obj) ==
    LET r0 == PostInitRow0(PostInitShared(obj))
    IN  IF ~r0.ok THEN r0
        ELSE LET o1 == Put(Put(r0.val, "task_id", TasksGet(r0.val["task"])),
                           "num_jobs", r0.val["job_params"].nrows)
                 r1 == PostInitColMaps(o1)
             IN  IF ~r1.ok THEN r1
                 ELSE Ok(Put(Put(r1.val, "spaces_backends", SpacesBackends),
                             "job_params_json", ToJson(r1.val["job_params"])))

----------------------------------------------------------------------------
\* The _munge_* methods

IntStr(n) == ToString(n)

\* a plausible slip: the row is read from the live table, not from the snapshot
SnapshotRows_live(obj) == JsonLoads(ToJson(obj["job_params"]))

\* json.loads(self.job_params_json)
SnapshotRows(obj) == JsonLoads(obj["job_params_json"])

_munge_common_params(obj, idx) ==
    LET rows == SnapshotRows(obj)
    IN  IF idx \notin 0..(Len(rows) - 1) THEN Fail("IndexError")
        ELSE LET p0 == rows[idx + 1]
                 p1 == Put(p0, "token", obj["token"])
                 p2 == Put(p1, "project_name", obj["project_name"] \o "-" \o IntStr(idx))
                 p3 == Put(p2, "push_to_hub", TRUE)
                 p4 == Put(p3, "repo_id",
                           obj["username"] \o "/" \o obj["project_name"] \o "-" \o IntStr(idx))
                 p5 == Put(p4, "data_path", obj["data_path"])
             IN  Ok(Put(p5, "username", obj["username"]))

\* if "use_fp16" in _params: fp16 = use_fp16; pop use_fp16
RenameKey(p, old, new) ==
    IF Has(p, old) THEN Pop(Put(p, new, p[old]), old) ELSE p

\* the int4_8 block of _munge_params_llm
MungeInt4_8(p) ==
    IF Has(p, "int4_8")
        THEN LET q == IF p["int4_8"] = "int4"
                          THEN Put(Put(p, "use_int4", TRUE), "use_int8", FALSE)
                      ELSE IF p["int4_8"] = "int8"
                          THEN Put(Put(p, "use_int4", FALSE), "use_int8", TRUE)
                      ELSE Put(Put(p, "use_int4", FALSE), "use_int8", FALSE)
             IN  Pop(q, "int4_8")
        ELSE p

\* self.model_choice, as assigned to _params["model"]
SharedModel(obj, p) == obj["model_choice"]

_munge_params_llm(obj, idx) ==
    LET c == _munge_common_params(obj, idx)
    IN  IF ~c.ok THEN c
        ELSE IF ~Has(obj, "model_choice") \/ ~Has(obj, "col_map_text") THEN Fail("AttributeError")
        ELSE LET p1 == Put(c.val, "model", SharedModel(obj, c.val))
                 p2 == Put(p1, "text_column", obj["col_map_text"])
                 p3 == IF Has(p2, "trainer")
                           THEN Put(p2, "trainer", Lower(p2["trainer"]))
                           ELSE p2
                 p4 == RenameKey(p3, "use_fp16", "fp16")
             IN  Ok(MungeInt4_8(p4))

_munge_params_text_clf(obj, idx) ==
    LET c == _munge_common_params(obj, idx)
    IN  IF ~c.ok THEN c
        ELSE IF ~Has(obj, "model_choice") \/ ~Has(obj, "col_map_text")
                \/ ~Has(obj, "col_map_target") THEN Fail("AttributeError")
        ELSE LET p1 == Put(c.val, "model", SharedModel(obj, c.val))
                 p2 == Put(p1, "text_column", obj["col_map_text"])
                 p3 == Put(p2, "target_column", obj["col_map_target"])
                 p4 == Put(p3, "valid_split", "validation")
             IN  Ok(RenameKey(p4, "use_fp16", "fp16"))

\* one imputer / scaler field: "" (after strip) or "none" (any case) becomes None
MungeImputer(r, key) ==
    IF ~r.ok THEN r
    ELSE IF ~Has(r.val, key) THEN Fail("KeyError")
    ELSE IF r.val[key] = PyNone THEN Fail("AttributeError")
    ELSE IF Len(Strip(r.val[key])) = 0 \/ Lower(r.val[key]) = "none"
        THEN Ok(Put(r.val, key, PyNone))
        ELSE r

_munge_params_tabular(obj, idx) ==
    LET c == _munge_common_params(obj, idx)
    IN  IF ~c.ok THEN c
        ELSE IF ~Has(obj, "col_map_id") \/ ~Has(obj, "col_map_target") THEN Fail("AttributeError")
        ELSE LET p1 == Put(c.val, "id_column", obj["col_map_id"])
                 p2 == Put(p1, "target_columns", obj["col_map_target"])
                 p3 == Put(p2, "valid_split", "validation")
             IN  MungeImputer(MungeImputer(MungeImputer(Ok(p3),
                     "categorical_imputer"), "numerical_imputer"), "numeric_scaler")

_munge_params_dreambooth(obj, idx) ==
    LET c == _munge_common_params(obj, idx)
    IN  IF ~c.ok THEN c
        ELSE IF ~Has(obj, "model_choice") THEN Fail("AttributeError")
        ELSE LET p1 == Put(c.val, "model", SharedModel(obj, c.val))
                 p2 == Put(p1, "image_path", obj["data_path"])
             IN  Ok(RenameKey(p2, "weight_decay", "adam_weight_decay"))

\* a plausible slip: an unlisted id falls through to the dreambooth branch
TaskFamily_fallthrough(task_id) ==
    CASE task_id = 9 -> "llm"
      [] task_id \in {1, 2} -> "text_clf"
      [] task_id \in {13, 14, 15, 16, 26} -> "tabular"
      [] OTHER -> "dreambooth"

\* the if / elif chain of create_spaces on self.task_id
TaskFamily(task_id) ==
    CASE task_id = 9 -> "llm"
      [] task_id \in {1, 2} -> "text_clf"
      [] task_id \in {13, 14, 15, 16, 26} -> "tabular"
      [] task_id = 25 -> "dreambooth"
      [] OTHER -> "none"

\* the dict built for one row inside the loop of create_spaces (before parse_obj)
CompileJob(obj, idx) ==
    LET fam == TaskFamily(obj["task_id"])
    IN  CASE fam = "llm" -> _munge_params_llm(obj, idx)
          [] fam = "text_clf" -> _munge_params_text_clf(obj, idx)
          [] fam = "tabular" -> _munge_params_tabular(obj, idx)
          [] fam = "dreambooth" -> _munge_params_dreambooth(obj, idx)
          [] OTHER -> Fail("NotImplementedError")

----------------------------------------------------------------------------
\* The explored inputs: dataset descriptors and job_params tables

\* a str of n characters
RECURSIVE NameOfLen(_)
NameOfLen(n) == IF n = 0 THEN "" ELSE NameOfLen(n - 1) \o "y"

\* a list of n source column names
ColumnList(n) == [i \in 1..n |-> "col" \o ToString(i)]

LabelMappings ==
    {PyStr(NameOfLen(n)) : n \in 1..MaxNameLen} \cup {PyList(ColumnList(n)) : n \in 1..MaxLabelCols}

DatasetOf(kind, task) ==
    [k \in {"kind", "token", "project_name", "username", "task"} |->
        CASE k = "kind" -> kind
          [] k = "token" -> "hf_token"
          [] k = "project_name" -> "proj"
          [] k = "username" -> "user"
          [] k = "task" -> task]

Datasets ==
    {Put(DatasetOf("AutoTrainDataset", t), "column_mapping",
         [k \in {"text", "label"} |-> IF k = "text" THEN "body" ELSE PyStr("y")]) :
        t \in {"lm_training", "text_binary_classification", "speech_recognition"}}
    \cup {Put(DatasetOf("AutoTrainDataset", "tabular_binary_classification"), "column_mapping",
              [k \in {"id", "label"} |-> IF k = "id" THEN "rowid" ELSE l]) : l \in LabelMappings}
    \cup {Put(DatasetOf("AutoTrainDataset", "tabular_binary_classification"), "column_mapping",
              [k \in {"id"} |-> "rowid"])}
    \cup {DatasetOf("AutoTrainDreamboothDataset", "dreambooth"),
          DatasetOf("AutoTrainImageClassificationDataset", "image_binary_classification")}

BackendChoices == {"A10G Large", "CPU (Free)", "Local", "AutoTrain", "H100 Large"}

SchemaColumns(sch) ==
    CASE sch = "llm" -> {"backend", "model_choice", "int4_8", "use_fp16", "trainer"}
      [] sch = "llm_flags" -> {"backend", "model_choice", "use_int4", "use_int8"}
      [] sch = "llm_nomodel" -> {"backend", "int4_8"}
      [] sch = "clf" -> {"backend", "model_choice", "use_fp16"}
      [] sch = "tab" -> {"backend", "categorical_imputer", "numerical_imputer", "numeric_scaler"}
      [] sch = "db" -> {"backend", "model_choice", "weight_decay"}
      [] sch = "plain" -> {"backend", "model_choice"}
      [] sch = "nobackend" -> {"model_choice"}

BaseRow(sch) ==
    [c \in SchemaColumns(sch) |->
        CASE c = "backend" -> "A10G Large"
          [] c = "model_choice" -> "gpt2"
          [] c = "int4_8" -> "int4"
          [] c = "use_fp16" -> TRUE
          [] c = "trainer" -> "SFT"
          [] c = "use_int4" -> FALSE
          [] c = "use_int8" -> FALSE
          [] c = "categorical_imputer" -> "most_frequent"
          [] c = "numerical_imputer" -> "median"
          [] c = "numeric_scaler" -> "standard"
          [] c = "weight_decay" -> "0.01"]

\* the values a column takes in the explored rows, besides its base value
ColumnChoices(sch, c) ==
    CASE c = "backend" -> IF sch = "tab" THEN {"Local"} ELSE BackendChoices
      [] c = "model_choice" -> {"llama"}
      [] c = "int4_8" -> {"int8", "none"}
      [] c = "use_fp16" -> IF sch = "clf" THEN {FALSE} ELSE {}
      [] c = "use_int4" -> {TRUE}
      [] c = "use_int8" -> {TRUE}
      [] c = "categorical_imputer" -> {"", NaN}
      [] c = "numeric_scaler" -> {"None"}
      [] OTHER -> {}

\* the base row, and the base row with one column changed
RowPool(sch) ==
    {BaseRow(sch)} \cup
    {[BaseRow(sch) EXCEPT ![c] = v] : <<c, v>> \in
        UNION {{<<c2, v2>> : v2 \in ColumnChoices(sch, c2)} : c2 \in SchemaColumns(sch)}}
    \cup (IF sch = "llm_flags"
              THEN {[BaseRow(sch) EXCEPT !["use_int4"] = TRUE, !["use_int8"] = TRUE]}
              ELSE {})

SchemasFor(task) ==
    (CASE task = "lm_training" -> {"llm", "llm_flags", "llm_nomodel"}
       [] task = "text_binary_classification" -> {"clf"}
       [] task = "tabular_binary_classification" -> {"tab"}
       [] task = "dreambooth" -> {"db"}
       [] OTHER -> {"plain"})
    \cup {"nobackend"}

Tables(sch) ==
    UNION {{FrameOf(SchemaColumns(sch), n, rows) : rows \in [0..(n - 1) -> RowPool(sch)]} :
              n \in 1..MaxJobs}

NewObject(ds, jp) == [k \in {"dataset", "job_params"} |-> IF k = "dataset" THEN ds ELSE jp]

----------------------------------------------------------------------------
\* State machine

NotReturned == [returned |-> FALSE, isnone |-> FALSE, val |-> <<>>]
ReturnedNone == [returned |-> TRUE, isnone |-> TRUE, val |-> <<>>]
ReturnedList(l) == [returned |-> TRUE, isnone |-> FALSE, val |-> l]

NotCalled == [idx |-> 0 - 1, res |-> Fail("")]

Handles == {"user/space-a", "user/space-b"}

Init ==
    /\ \E ds \in Datasets : \E sch \in SchemasFor(ds["task"]) : \E jp \in Tables(sch) :
          /\ self = NewObject(ds, jp)
          /\ init_job_params = jp
    /\ pc = "constructing"
    /\ err = ""
    /\ entry = ""
    /\ job_idx = 0
    /\ created_spaces = <<>>
    /\ result = NotReturned
    /\ runner_log = <<>>
    /\ compiled = NotCalled

\* the dataclass constructor runs __post_init__
post_init ==
    /\ pc = "constructing"
    /\ LET r == PostInit(self)
       IN  IF r.ok
               THEN /\ self' = r.val
                    /\ pc' = "ready"
                    /\ err' = ""
               ELSE /\ self' = self
                    /\ pc' = "init_failed"
                    /\ err' = r.err
    /\ UNCHANGED <<init_job_params, entry, job_idx, created_spaces, result, runner_log, compiled>>

\* a plausible slip: only one of the two legacy tiers is rejected
IsLegacyBackend_one(b) == b = "AutoTrain"

\* the two raise NotImplementedError guards of create
IsLegacyBackend(b) == b = "AutoTrain" \/ b = "Local"

\* create(), up to the call of create_spaces
create ==
    /\ pc = "ready"
    /\ entry' = "create"
    /\ IF IsLegacyBackend(self["backend"])
           THEN /\ pc' = "raised"
                /\ err' = "NotImplementedError"
                /\ result' = result
       ELSE IF self["backend"] \in DOMAIN self["spaces_backends"]
           THEN /\ pc' = "create_spaces"
                /\ err' = err
                /\ result' = result
       ELSE /\ pc' = "returned"
            /\ err' = err
            /\ result' = ReturnedNone
    /\ job_idx' = 0
    /\ created_spaces' = <<>>
    /\ UNCHANGED <<self, init_job_params, runner_log, compiled>>

\* create_spaces() called directly
create_spaces ==
    /\ pc = "ready"
    /\ entry' = "create_spaces"
    /\ pc' = "create_spaces"
    /\ job_idx' = 0
    /\ created_spaces' = <<>>
    /\ UNCHANGED <<self, init_job_params, err, result, runner_log, compiled>>

\* a plausible slip: the tier is looked up from the row being submitted
RunnerBackendKey_row(obj, params) == params["backend"]

\* the key looked up in self.spaces_backends for SpaceRunner(backend=...)
RunnerBackendKey(obj, params) == obj["backend"]

\* _created_spaces.append(space_id)
AppendSpace(spaces, space_id) == Append(spaces, space_id)

\* a plausible slip: a failed row is skipped and the loop goes on
AfterRaise_skip(idx) == [pc |-> "create_spaces", job_idx |-> idx + 1]

\* an exception in the loop body leaves create_spaces: nothing catches it
AfterRaise(idx) == [pc |-> "raised", job_idx |-> idx]

\* one iteration of the for loop of create_spaces; ext is what the two
\* external calls do: parse_obj rejecting the dict, prepare() failing, or
\* prepare() returning a space id
create_spaces_iteration ==
    /\ pc = "create_spaces"
    /\ job_idx < self["num_jobs"]
    /\ \E ext \in {"ValidationError", "RunnerError"} \cup Handles :
          LET c == CompileJob(self, job_idx)
              key == RunnerBackendKey(self, c.val)
              raised == IF ~c.ok THEN c.err
                        ELSE IF ext = "ValidationError" THEN ext
                        ELSE IF key \notin DOMAIN self["spaces_backends"] THEN "KeyError"
                        ELSE IF ext = "RunnerError" THEN ext
                        ELSE ""
              called == c.ok /\ raised \in {"", "RunnerError"}
          IN  /\ runner_log' =
                    IF called
                        THEN Append(runner_log,
                                    [job_idx |-> job_idx, params |-> c.val,
                                     backend |-> self["spaces_backends"][key],
                                     space_id |-> IF raised = "" THEN ext ELSE PyNone])
                        ELSE runner_log
              /\ IF raised = ""
                     THEN /\ created_spaces' = AppendSpace(created_spaces, ext)
                          /\ job_idx' = job_idx + 1
                          /\ pc' = pc
                          /\ err' = err
                     ELSE /\ created_spaces' = created_spaces
                          /\ job_idx' = AfterRaise(job_idx).job_idx
                          /\ pc' = AfterRaise(job_idx).pc
                          /\ err' = raised
    /\ UNCHANGED <<self, init_job_params, entry, result, compiled>>

\* range(self.num_jobs) is exhausted: return _created_spaces
create_spaces_return ==
    /\ pc = "create_spaces"
    /\ job_idx >= self["num_jobs"]
    /\ pc' = "returned"
    /\ result' = ReturnedList(created_spaces)
    /\ UNCHANGED <<self, init_job_params, err, entry, job_idx, created_spaces, runner_log, compiled>>

Next == post_init \/ create \/ create_spaces \/ create_spaces_iteration \/ create_spaces_return

Spec == Init /\ [][Next]_vars

----------------------------------------------------------------------------
\* Direct calls of the munge methods, with the caller still holding (and
\* editing) the DataFrame it passed to the constructor

EditCell(c, v) == IF c \in BoolColumns THEN ~v ELSE v \o "-edited"

\* df.loc[i, :] = edited values, in place
EditRow(df, i) ==
    [df EXCEPT !.data = [c \in df.columns |->
                            [df.data[c] EXCEPT ![i] = EditCell(c, df.data[c][i])]]]

\* the caller edits row i of the table; self.job_params is that same object
mutate_job_params ==
    /\ pc = "ready"
    /\ \E i \in 0..(self["job_params"].nrows - 1) :
          /\ \A c \in init_job_params.columns :
                self["job_params"].data[c][i] = init_job_params.data[c][i]
          /\ self' = Put(self, "job_params", EditRow(self["job_params"], i))
    /\ UNCHANGED <<init_job_params, pc, err, entry, job_idx, created_spaces, result,
                   runner_log, compiled>>

\* the caller compiles one row (the index may be one past the last row)
compile_job ==
    /\ pc = "ready"
    /\ \E idx \in 0..MaxJobs :
          /\ idx <= self["num_jobs"]
          /\ compiled' = [idx |-> idx, res |-> CompileJob(self, idx)]
    /\ UNCHANGED <<self, init_job_params, pc, err, entry, job_idx, created_spaces, result,
                   runner_log>>

NextCompile == post_init \/ mutate_job_params \/ compile_job

SpecCompile == Init /\ [][NextCompile]_vars

----------------------------------------------------------------------------
\* Properties

Constructed == pc \notin {"constructing", "init_failed"}

\* the runner was called once per row 0..n-1, in that order, and every call returned
AllSubmittedInOrder(n) ==
    /\ Len(runner_log) = n
    /\ \A i \in 1..Len(runner_log) :
          /\ runner_log[i].job_idx = i - 1
          /\ runner_log[i].space_id # PyNone

\* the returned list holds, at position i, the handle the runner gave for row i
ReturnedHandlesOf(n) ==
    /\ ~result.isnone
    /\ Len(result.val) = n
    /\ \A i \in 1..Len(result.val) :
          i <= Len(runner_log) /\ result.val[i] = runner_log[i].space_id

\* C1: whenever create / create_spaces has returned without an exception, the
\* runner was called exactly num_jobs times, for rows 0..num_jobs-1 in
\* ascending order, and the returned list has num_jobs elements, the i-th
\* being the handle the runner returned for row i.
C1_ReturnMeansAllSubmitted ==
    pc = "returned" =>
        AllSubmittedInOrder(self["num_jobs"]) /\ ReturnedHandlesOf(self["num_jobs"])

\* The same statement for create_spaces alone (and for create whenever it
\* reaches create_spaces): this part holds.
CreateSpacesReturnsAll ==
    (pc = "returned" /\ ~result.isnone) =>
        AllSubmittedInOrder(self["num_jobs"]) /\ ReturnedHandlesOf(self["num_jobs"])

CreateSpacesReturnsAll_Witness ==
    /\ pc = "returned"
    /\ ~result.isnone
    /\ Len(result.val) = MaxJobs
    /\ result.val[1] # result.val[2]

\* C2: once create has been called on a project whose backend is "Local" or
\* "AutoTrain", it has raised (NotImplementedError) and the runner was never
\* called.
C2_LegacyBackendRejected ==
    (entry = "create" /\ self["backend"] \in {"Local", "AutoTrain"}) =>
        /\ pc = "raised"
        /\ err = "NotImplementedError"
        /\ runner_log = <<>>
        /\ created_spaces = <<>>

C2_Witness ==
    /\ entry = "create"
    /\ self["backend"] = "Local"
    /\ pc = "raised"
    /\ self["num_jobs"] = MaxJobs

KnownFamilyIds == {9, 1, 2, 13, 14, 15, 16, 26, 25}

\* C3: on a project whose task id is none of the ids of the four families
\* and whose backend is a supported tier, compiling any row fails with
\* NotImplementedError, create / create_spaces never returns, the only
\* exception it raises is NotImplementedError, and the runner is never called.
C3_UnknownTaskSubmitsNothing ==
    (Constructed /\ self["task_id"] \notin KnownFamilyIds
                 /\ self["backend"] \in DOMAIN SpacesBackends) =>
        /\ \A i \in 0..(self["num_jobs"] - 1) :
              ~CompileJob(self, i).ok /\ CompileJob(self, i).err = "NotImplementedError"
        /\ runner_log = <<>>
        /\ created_spaces = <<>>
        /\ pc # "returned"
        /\ (pc = "raised" => err = "NotImplementedError" /\ job_idx = 0)

C3_Witness ==
    /\ pc = "raised"
    /\ self["task_id"] = 17
    /\ self["backend"] = "CPU (Free)"
    /\ err = "NotImplementedError"
    /\ self["num_jobs"] = MaxJobs
    /\ runner_log = <<>>

\* the rows the runner was called for are 0, 1, ..., in order; only the last
\* call can have failed; the handles collected are those of the calls that returned
SubmittedIsPrefix ==
    /\ \A i \in 1..Len(runner_log) :
          /\ runner_log[i].job_idx = i - 1
          /\ (runner_log[i].space_id = PyNone => i = Len(runner_log) /\ pc = "raised")
    /\ Len(created_spaces) = Cardinality({i \in 1..Len(runner_log) :
                                              runner_log[i].space_id # PyNone})
    /\ (pc = "raised" /\ entry # "" /\ Constructed => Len(runner_log) <= job_idx + 1)

\* C4: at every moment the rows submitted so far are a prefix 0..j of the
\* row indices; an exception raised in an iteration reaches the caller at
\* once (the method is left with that exception), and after that no row is
\* compiled or submitted and what was submitted stays submitted.
C4_FailFast ==
    /\ []SubmittedIsPrefix
    /\ [][(pc = "create_spaces" /\ err' # err) => pc' = "raised"]_vars
    /\ [][pc = "raised" => (pc' = "raised" /\ err' = err /\ runner_log' = runner_log
                             /\ created_spaces' = created_spaces /\ job_idx' = job_idx)]_vars
    /\ [][Len(runner_log') >= Len(runner_log)
          /\ SubSeq(runner_log', 1, Len(runner_log)) = runner_log]_vars

C4_Witness ==
    /\ pc = "raised"
    /\ self["num_jobs"] = 2
    /\ job_idx = 1
    /\ err = "RunnerError"
    /\ Len(created_spaces) = 1
    /\ Len(runner_log) = 2

\* the project as __post_init__ built it from the table it was given
ProjectAtInit == PostInit(NewObject(self["dataset"], init_job_params)).val

\* C5: the dict a munge call returns for index i is the one computed from
\* the table as it was at __post_init__, whatever was done to the table
\* since; two successive calls with the same index return equal dicts, and
\* no call changes the snapshot.
C5_CompileFromSnapshot ==
    /\ [](pc = "ready" => self["job_params_json"] = ToJson(init_job_params))
    /\ []((pc = "ready" /\ compiled.idx >= 0) =>
              /\ compiled.res.ok = CompileJob(ProjectAtInit, compiled.idx).ok
              /\ compiled.res.err = CompileJob(ProjectAtInit, compiled.idx).err
              /\ compiled.res.val = CompileJob(ProjectAtInit, compiled.idx).val)
    /\ [][(compiled.idx >= 0 /\ compiled'.idx = compiled.idx) => compiled'.res = compiled.res]_vars

C5_Witness ==
    /\ pc = "ready"
    /\ compiled.idx = 1
    /\ compiled.res.ok
    /\ self["job_params"].data["backend"][1] # init_job_params.data["backend"][1]
    /\ compiled.res.val["backend"] = init_job_params.data["backend"][1]

\* the row of the snapshot a log entry was compiled from
SnapshotRow(e) == self["job_params_json"][e.job_idx + 1]

\* C6: every language-model dict handed to the runner has no int4_8 key,
\* never has use_int4 and use_int8 both true, and has (true,false) for
\* int4_8 = "int4", (false,true) for "int8", (false,false) otherwise.
C6_NeverBothInt ==
    (Constructed /\ self["task_id"] = 9) =>
        \A i \in 1..Len(runner_log) :
            LET p == runner_log[i].params
                row == SnapshotRow(runner_log[i])
            IN  /\ ~Has(p, "int4_8")
                /\ (Has(p, "use_int4") /\ Has(p, "use_int8")) =>
                       ~(p["use_int4"] /\ p["use_int8"])
                /\ Has(row, "int4_8") =>
                       /\ p["use_int4"] = (row["int4_8"] = "int4")
                       /\ p["use_int8"] = (row["int4_8"] = "int8")

\* The part of C6 that holds: rows that carry an int4_8 column.
Int4_8RowsExclusive ==
    (Constructed /\ self["task_id"] = 9) =>
        \A i \in 1..Len(runner_log) :
            LET p == runner_log[i].params
                row == SnapshotRow(runner_log[i])
            IN  /\ ~Has(p, "int4_8")
                /\ Has(row, "int4_8") =>
                       /\ p["use_int4"] = (row["int4_8"] = "int4")
                       /\ p["use_int8"] = (row["int4_8"] = "int8")
                       /\ ~(p["use_int4"] /\ p["use_int8"])

\* C7: every tabular dict handed to the runner has a single string as
\* target_columns when col_mapping["label"] names one column (a bare name
\* or a one-element list), and the list autotrain_label_0 ..
\* autotrain_label_{N-1} when it is a list of N > 1 columns.
C7_TargetColumnsShape ==
    (Constructed /\ self["task_id"] \in {13, 14, 15, 16, 26}) =>
        \A i \in 1..Len(runner_log) :
            LET label == self["col_mapping"]["label"]
                tc == runner_log[i].params["target_columns"]
            IN  IF label.isstr \/ Len(label.list) = 1
                    THEN tc.isstr
                    ELSE /\ ~tc.isstr
                         /\ Len(tc.list) = Len(label.list)
                         /\ \A k \in 1..Len(tc.list) :
                               tc.list[k] = "autotrain_label_" \o ToString(k - 1)

\* The part of C7 that holds: a list of N > 1 columns gives the N generated names.
MultiLabelTargetColumns ==
    (Constructed /\ self["task_id"] \in {13, 14, 15, 16, 26}) =>
        \A i \in 1..Len(runner_log) :
            LET label == self["col_mapping"]["label"]
                tc == runner_log[i].params["target_columns"]
            IN  (~label.isstr /\ Len(label.list) > 1) =>
                    /\ ~tc.isstr
                    /\ Len(tc.list) = Len(label.list)
                    /\ \A k \in 1..Len(tc.list) :
                          tc.list[k] = "autotrain_label_" \o ToString(k - 1)

\* the task name is a key of TASKS
TaskRecognized == self["dataset"]["task"] \in DOMAIN TASKS

\* C8 as stated: once the constructor has run, a table without a backend
\* column or a task name that is not recognized has made it fail.
C8_InitRejectsBadInput ==
    (pc # "constructing" /\ ("backend" \notin init_job_params.columns \/ ~TaskRecognized)) =>
        pc = "init_failed"

\* C8 amended: a table without a backend column makes the constructor fail
\* (KeyError); an unrecognized task name does not: with a backend column
\* the constructor succeeds, task_id is None, and the task is rejected only
\* by the first iteration of create_spaces (NotImplementedError).
C8_InitRejectsMissingBackend ==
    /\ (pc # "constructing" /\ "backend" \notin init_job_params.columns) =>
          pc = "init_failed" /\ err = "KeyError"
    /\ (pc # "constructing" /\ "backend" \in init_job_params.columns /\ ~TaskRecognized) =>
          /\ pc # "init_failed"
          /\ self["task_id"] = NoTaskId
          /\ (pc = "raised" /\ entry = "create_spaces" => err = "NotImplementedError")

C8_Witness ==
    /\ pc = "init_failed"
    /\ "backend" \notin init_job_params.columns
    /\ err = "KeyError"
    /\ ~TaskRecognized

\* C9: every call of the runner names the tier of row 0's backend, and for
\* language-model, text-classification and dreambooth projects every dict
\* handed to the runner has row 0's model_choice as model, whatever backend
\* and model_choice the row itself carries.
C9_Row0Only ==
    Constructed =>
        \A i \in 1..Len(runner_log) :
            /\ init_job_params.data["backend"][0] \in DOMAIN SpacesBackends
            /\ runner_log[i].backend = SpacesBackends[init_job_params.data["backend"][0]]
            /\ self["task_id"] \in {9, 1, 2, 25} =>
                  runner_log[i].params["model"] = init_job_params.data["model_choice"][0]

C9_Witness ==
    /\ Len(runner_log) = 2
    /\ runner_log[2].params["backend"] = "Local"
    /\ runner_log[2].space_id # PyNone
    /\ runner_log[2].backend = "spaces-cpuf"
    /\ pc = "returned"

\* C10: whenever create has returned, it returned a list of num_jobs
\* handles and the runner was called for every row.
C10_CreateReturnsAllOrRaises ==
    (entry = "create" /\ pc = "returned") =>
        /\ ~result.isnone
        /\ Len(result.val) = self["num_jobs"]
        /\ Len(runner_log) = self["num_jobs"]

====
